---- MODULE Spec2Model ----
(***************************************************************************)
(* Model of convert_to_jpg.py: a two-pass batch script over the current    *)
(* directory.  Pass 1 converts every .webp/.png entry to <stem>.jpg and    *)
(* unlinks the source; pass 2 resizes the remaining *.jp*g entries in      *)
(* place.  The Pillow calls the script makes (exif_transpose, thumbnail,   *)
(* convert, alpha_composite, save) are modelled by what they compute.      *)
(***************************************************************************)
EXTENDS Integers, Sequences, FiniteSets, TLC

VARIABLES
    dir,          \* the working directory: name -> file content
    dir0,         \* history: the directory when the current run started
    run,          \* history: number of the current run of the script
    pc,           \* position of the script
    todo,         \* entries the running for-loop has not yet yielded
    cur,          \* src_path (pass 1) / jpg_path (pass 2)
    im,           \* the image bound by `with Image.open(...) as im`
    resized,      \* the local `resized`
    rgb,          \* the local `rgb_jpeg_ready`
    created_jpgs, \* the module-level set created_jpgs
    out,          \* lines printed on stdout
    steps,        \* history: side effects performed for the current entry
    skipped,      \* history: names the pass-2 loop skipped by membership
    touched       \* history: names the run opened, wrote or unlinked

vars == <<dir, dir0, run, pc, todo, cur, im, resized, rgb, created_jpgs, out,
          steps, skipped, touched>>

-----------------------------------------------------------------------------
(* Bounds of the model and constants of the program.                       *)

MAX_DIM == 600

\* number of entries in the starting directory
MaxFiles == 2

\* number of consecutive runs of the script
MaxRuns == 2

\* half-width of the windows of widths/heights tried around 1, MAX_DIM, 2*MAX_DIM
DimSpan == 6

\* colour samples tried at each end of 0..255
MaxSample == 2

Max(a, b) == IF a >= b THEN a ELSE b

Abs(x) == IF x >= 0 THEN x ELSE -x

-----------------------------------------------------------------------------
(* File names: a stem and an extension (a sequence of characters).         *)

png  == <<"p", "n", "g">>
PNG  == <<"P", "N", "G">>
webp == <<"w", "e", "b", "p">>
jpg  == <<"j", "p", "g">>
jpeg == <<"j", "p", "e", "g">>
JPG  == <<"J", "P", "G">>
txt  == <<"t", "x", "t">>

Exts == {png, PNG, webp, jpg, jpeg, JPG, txt}

\* the names a starting directory can hold: every extension under one stem,
\* and a second stem for unrelated sources and JPEGs
Names == [stem : {"a"}, ext : Exts] \cup [stem : {"b"}, ext : {png, jpg}]

\* str.lower() on one character
LowerChar(ch) ==
    CASE ch = "P" -> "p"
      [] ch = "N" -> "n"
      [] ch = "G" -> "g"
      [] ch = "J" -> "j"
      [] OTHER -> ch

\* src_path.suffix.lower()
SuffixLower(n) == [i \in DOMAIN n.ext |-> LowerChar(n.ext[i])]

\* the selection test of pass 1 (negation of the `continue` condition)
IsSource(n) == SuffixLower(n) \in {webp, png}

\* src_path.with_suffix(".jpg")
with_suffix_jpg(n) == [stem |-> n.stem, ext |-> jpg]

\* the case-sensitive pattern "*.jp*g" of pass 2, on a name with one dot
GlobMatch(n) ==
    /\ Len(n.ext) >= 3
    /\ n.ext[1] = "j"
    /\ n.ext[2] = "p"
    /\ n.ext[Len(n.ext)] = "g"

-----------------------------------------------------------------------------
(* Images.  An image is its size, whether its EXIF orientation swaps the   *)
(* axes (orientations 5..8), its mode, whether info carries "transparency",*)
(* and one sample pixel: colour value c (every channel is treated alike)   *)
(* and alpha a.  For mode P/PA, c is the palette colour of the pixel's     *)
(* index; for mode P with a transparency key, a is the alpha the key gives *)
(* that index.  id names the picture the pixels come from.                 *)

None == [st |-> "none"]

Modes == {"RGB", "RGBA", "L", "LA", "P", "PA"}

\* modes whose pixels store an alpha channel
HasAlphaBand(mode) == mode \in {"RGBA", "LA", "PA"}

\* the alpha a pixel of the image carries once made explicit
AlphaOf(img) ==
    IF HasAlphaBand(img.mode) \/ (img.mode = "P" /\ img.key) THEN img.a ELSE 255

\* ImageOps.exif_transpose: returns a copy, rotated when the tag says so
exif_transpose(img) ==
    IF img.rot
    THEN [img EXCEPT !.w = img.h, !.h = img.w, !.rot = FALSE]
    ELSE img

\* floor and ceil of num/den, for den > 0
Floor(num, den) == num \div den

Ceil(num, den) == IF num % den = 0 THEN num \div den ELSE (num \div den) + 1

\* round_aspect inside Image.thumbnail, for the branch that computes x:
\* max(min(floor, ceil, key = |aspect - n/y|), 1) with aspect = W/H, y = MAX_DIM.
\* The keys are compared exactly; where they tie the floating-point keys
\* decide, so both candidates are possible results.
round_aspect_x(W, H) ==
    LET f  == Floor(MAX_DIM * W, H)
        c  == Ceil(MAX_DIM * W, H)
        kf == Abs(MAX_DIM * W - f * H)
        kc == Abs(MAX_DIM * W - c * H)
        ns == IF kf < kc THEN {f} ELSE IF kc < kf THEN {c} ELSE {f, c}
    IN  {Max(n, 1) : n \in ns}

\* round_aspect for the branch that computes y:
\* key = 0 if n == 0 else |aspect - x/n| with x = MAX_DIM
round_aspect_y(W, H) ==
    LET f  == Floor(MAX_DIM * H, W)
        c  == Ceil(MAX_DIM * H, W)
        kf == Abs(W * f - MAX_DIM * H) * c
        kc == Abs(W * c - MAX_DIM * H) * f
        ns == IF f = 0 THEN {f}
              ELSE IF kf < kc THEN {f} ELSE IF kc < kf THEN {c} ELSE {f, c}
    IN  {Max(n, 1) : n \in ns}

\* thumbnail returning early as soon as one side fits the box
ThumbnailSizesOneSideFits(W, H) ==
    IF MAX_DIM >= W \/ MAX_DIM >= H
    THEN {<<W, H>>}
    ELSE IF H >= W
         THEN {<<x, MAX_DIM>> : x \in round_aspect_x(W, H)}
         ELSE {<<MAX_DIM, y>> : y \in round_aspect_y(W, H)}

\* img.thumbnail((MAX_DIM, MAX_DIM), LANCZOS): the sizes it can produce
ThumbnailSizes(W, H) ==
    IF MAX_DIM >= W /\ MAX_DIM >= H
    THEN {<<W, H>>}
    ELSE IF H >= W      \* x / y >= aspect
         THEN {<<x, MAX_DIM>> : x \in round_aspect_x(W, H)}
         ELSE {<<MAX_DIM, y>> : y \in round_aspect_y(W, H)}

\* resize(img): the images it can return
resize(img) ==
    LET t == exif_transpose(img)
    IN  {[t EXCEPT !.w = s[1], !.h = s[2]] : s \in ThumbnailSizes(t.w, t.h)}

\* SHIFTFORDIV255 of AlphaComposite.c
ShiftForDiv255(v) == ((v \div 256) + v) \div 256

\* one colour channel of Image.alpha_composite(dst, src) (src over dst),
\* in the 7-bit fixed point of the library
CompositeChannel(dc, da, sc, sa) ==
    IF sa = 0
    THEN dc
    ELSE LET blend   == da * (255 - sa)
             outa255 == sa * 255 + blend
             coef1   == (sa * 255 * 255 * 128) \div outa255
             coef2   == 255 * 128 - coef1
             tmp     == sc * coef1 + dc * coef2
         IN  ShiftForDiv255(tmp + 128 * 128) \div 128

\* the alpha channel of Image.alpha_composite(dst, src)
CompositeAlpha(da, sa) ==
    IF sa = 0 THEN da ELSE ShiftForDiv255(sa * 255 + da * (255 - sa) + 128)

\* img.convert("RGB"): the colour is kept, any alpha band is dropped
convert_RGB(img) == [img EXCEPT !.mode = "RGB", !.a = 255]

\* img.convert("RGBA"): alpha made explicit
convert_RGBA(img) == [img EXCEPT !.mode = "RGBA", !.a = AlphaOf(img), !.key = FALSE]

\* the test on line 29
NeedsComposite(img) ==
    img.mode \in {"RGBA", "LA"} \/ (img.mode = "P" /\ img.key)

\* to_jpeg_rgb(img)
to_jpeg_rgb(img) ==
    IF NeedsComposite(img)
    THEN LET rgba == convert_RGBA(img)
             comp == [rgba EXCEPT !.c = CompositeChannel(255, 255, rgba.c, rgba.a),
                                  !.a = CompositeAlpha(255, rgba.a)]
         IN  convert_RGB(comp)
    ELSE convert_RGB(img)

-----------------------------------------------------------------------------
(* Files.                                                                   *)

NoFile == [st |-> "absent"]

\* what a failed save leaves of a file it had opened for writing
Partial == [st |-> "partial"]

\* a file as found at the start; by = "orig" marks bytes the script never wrote
OrigFile(img) == [st |-> "file", by |-> "orig", img |-> img]

\* image.save(path, **JPEG_OPTS): baseline RGB data, no EXIF block is written
JpegFile(img, by) ==
    [st |-> "file", by |-> by, img |-> [img EXCEPT !.rot = FALSE, !.key = FALSE]]

Present(d) == {n \in Names : d[n] # NoFile}

IsImageFile(f) == f.st = "file"

LargestDim(img) == Max(img.w, img.h)

\* the pictures the starting directories hold
SampleKinds == {"wide", "clear", "turned"}

SampleImage(id, k) ==
    CASE k = "wide"   -> [id |-> id, w |-> 800, h |-> 400, rot |-> FALSE,
                          mode |-> "RGB", key |-> FALSE, c |-> 40, a |-> 255]
      [] k = "clear"  -> [id |-> id, w |-> 300, h |-> 300, rot |-> FALSE,
                          mode |-> "RGBA", key |-> FALSE, c |-> 40, a |-> 0]
      [] k = "turned" -> [id |-> id, w |-> 1200, h |-> 600, rot |-> TRUE,
                          mode |-> "RGB", key |-> FALSE, c |-> 40, a |-> 255]

\* the directory holding the entries S, entry n holding the picture of kind k[n]
MkDir(S, k) ==
    [n \in Names |-> IF n \in S THEN OrigFile(SampleImage(n, k[n])) ELSE NoFile]

\* the sets of at most MaxFiles entries
EntrySets == {T \in SUBSET Names : Cardinality(T) <= MaxFiles}

-----------------------------------------------------------------------------
(* The script.  pc names the statement about to run.                        *)

Init ==
    /\ \E S \in EntrySets : \E k \in [S -> SampleKinds] : dir = MkDir(S, k)
    /\ dir0 = dir
    /\ run = 1
    /\ pc = "iter1"
    /\ todo = Present(dir)          \* Path(".").iterdir() lists the directory
    /\ cur = None
    /\ im = None
    /\ resized = None
    /\ rgb = None
    /\ created_jpgs = {}
    /\ out = <<>>
    /\ steps = <<>>
    /\ skipped = {}
    /\ touched = {}

\* the statements of the body of the first loop, in a changed order: the
\* progress line before the name is recorded
Pass1BodyPrintFirst ==
    <<"open1", "resize1", "flatten1", "save1", "unlink", "print1", "add">>

\* line 44-53: the statements of the body of the first loop, in program order
Pass1Body ==
    <<"open1", "resize1", "flatten1", "save1", "unlink", "add", "print1">>

\* the statement that follows statement p of the body; after the last one the
\* loop yields again
After1(p) ==
    LET i == CHOOSE j \in 1 .. Len(Pass1Body) : Pass1Body[j] = p
    IN  IF i = Len(Pass1Body) THEN "iter1" ELSE Pass1Body[i + 1]

\* the first loop without its suffix test: every entry is converted
Iter1Unfiltered ==
    /\ pc = "iter1"
    /\ \E n \in todo :
         /\ todo' = todo \ {n}
         /\ cur' = n
         /\ pc' = Pass1Body[1]
         /\ steps' = <<>>
    /\ UNCHANGED <<dir, dir0, run, im, resized, rgb, created_jpgs, out, skipped, touched>>

\* line 40-42: the loop yields an entry; entries of other suffixes are passed over
Iter1 ==
    /\ pc = "iter1"
    /\ \E n \in todo :
         /\ todo' = todo \ {n}
         /\ IF IsSource(n)
            THEN /\ cur' = n
                 /\ pc' = Pass1Body[1]
                 /\ steps' = <<>>
            ELSE UNCHANGED <<cur, pc, steps>>
    /\ UNCHANGED <<dir, dir0, run, im, resized, rgb, created_jpgs, out, skipped, touched>>

\* line 44: Image.open(src_path)
Open1 ==
    /\ pc = "open1"
    /\ IsImageFile(dir[cur])
    /\ im' = dir[cur].img
    /\ pc' = After1(pc)
    /\ steps' = Append(steps, "open")
    /\ touched' = touched \cup {cur}
    /\ UNCHANGED <<dir, dir0, run, todo, cur, resized, rgb, created_jpgs, out, skipped>>

\* line 45: resized = resize(im)
Resize1 ==
    /\ pc = "resize1"
    /\ resized' \in resize(im)
    /\ pc' = After1(pc)
    /\ steps' = Append(steps, "resize")
    /\ UNCHANGED <<dir, dir0, run, todo, cur, im, rgb, created_jpgs, out, skipped, touched>>

\* line 46: rgb_jpeg_ready = to_jpeg_rgb(resized)
Flatten1 ==
    /\ pc = "flatten1"
    /\ rgb' = to_jpeg_rgb(resized)
    /\ pc' = After1(pc)
    /\ steps' = Append(steps, "flatten")
    /\ UNCHANGED <<dir, dir0, run, todo, cur, im, resized, created_jpgs, out, skipped, touched>>

\* line 48-49: rgb_jpeg_ready.save(dst_path, **JPEG_OPTS) returns
Save1 ==
    /\ pc = "save1"
    /\ dir' = [dir EXCEPT ![with_suffix_jpg(cur)] = JpegFile(rgb, "conv")]
    /\ pc' = After1(pc)
    /\ steps' = Append(steps, "save")
    /\ touched' = touched \cup {with_suffix_jpg(cur)}
    /\ UNCHANGED <<dir0, run, todo, cur, im, resized, rgb, created_jpgs, out, skipped>>

\* what save() can leave of the file at path when it raises: the file as it
\* was (it could not be opened), a truncated file, or, when save() had created
\* the file, nothing (the library removes it again)
FailedSaveLeaves(old) ==
    IF old = NoFile THEN {NoFile, Partial} ELSE {old, Partial}

\* line 49 raises: the exception ends the run
Save1Fails ==
    /\ pc = "save1"
    /\ \E f \in FailedSaveLeaves(dir[with_suffix_jpg(cur)]) :
         /\ dir' = [dir EXCEPT ![with_suffix_jpg(cur)] = f]
         /\ touched' = IF f = dir[with_suffix_jpg(cur)]
                       THEN touched
                       ELSE touched \cup {with_suffix_jpg(cur)}
    /\ pc' = "failed"
    /\ UNCHANGED <<dir0, run, todo, cur, im, resized, rgb, created_jpgs, out, steps, skipped>>

\* line 51: src_path.unlink()
Unlink ==
    /\ pc = "unlink"
    /\ dir' = [dir EXCEPT ![cur] = NoFile]
    /\ pc' = After1(pc)
    /\ steps' = Append(steps, "unlink")
    /\ touched' = touched \cup {cur}
    /\ UNCHANGED <<dir0, run, todo, cur, im, resized, rgb, created_jpgs, out, skipped>>

\* recording the name of the source instead of the name of the destination
AddSourceName ==
    /\ pc = "add"
    /\ created_jpgs' = created_jpgs \cup {cur}
    /\ pc' = After1(pc)
    /\ steps' = Append(steps, "add")
    /\ UNCHANGED <<dir, dir0, run, todo, cur, im, resized, rgb, out, skipped, touched>>

\* line 52: created_jpgs.add(dst_path.name)
Add ==
    /\ pc = "add"
    /\ created_jpgs' = created_jpgs \cup {with_suffix_jpg(cur)}
    /\ pc' = After1(pc)
    /\ steps' = Append(steps, "add")
    /\ UNCHANGED <<dir, dir0, run, todo, cur, im, resized, rgb, out, skipped, touched>>

\* line 53: the progress line of a conversion
Print1 ==
    /\ pc = "print1"
    /\ out' = Append(out, [kind |-> "converted", src |-> cur,
                           dst |-> with_suffix_jpg(cur), w |-> rgb.w, h |-> rgb.h])
    /\ pc' = After1(pc)
    /\ steps' = Append(steps, "print")
    /\ UNCHANGED <<dir, dir0, run, todo, cur, im, resized, rgb, created_jpgs, skipped, touched>>

\* line 56: pass 1 is exhausted; Path(".").glob("*.jp*g") lists the directory
StartPass2 ==
    /\ pc = "iter1"
    /\ todo = {}
    /\ todo' = {n \in Present(dir) : GlobMatch(n)}
    /\ pc' = "iter2"
    /\ UNCHANGED <<dir, dir0, run, cur, im, resized, rgb, created_jpgs, out, steps, skipped, touched>>

\* line 56-58: the loop yields an entry; names in created_jpgs are passed over
Iter2 ==
    /\ pc = "iter2"
    /\ \E n \in todo :
         /\ todo' = todo \ {n}
         /\ IF n \in created_jpgs
            THEN /\ skipped' = skipped \cup {n}
                 /\ UNCHANGED <<cur, pc, steps>>
            ELSE /\ cur' = n
                 /\ pc' = "open2"
                 /\ steps' = <<>>
                 /\ UNCHANGED skipped
    /\ UNCHANGED <<dir, dir0, run, im, resized, rgb, created_jpgs, out, touched>>

\* line 60: Image.open(jpg_path)
Open2 ==
    /\ pc = "open2"
    /\ IsImageFile(dir[cur])
    /\ im' = dir[cur].img
    /\ pc' = "check2"
    /\ steps' = Append(steps, "open")
    /\ touched' = touched \cup {cur}
    /\ UNCHANGED <<dir, dir0, run, todo, cur, resized, rgb, created_jpgs, out, skipped>>

\* the size test taking the smaller dimension instead of the larger one
Check2SmallerSide ==
    /\ pc = "check2"
    /\ pc' = IF (IF im.w <= im.h THEN im.w ELSE im.h) <= MAX_DIM THEN "iter2" ELSE "resize2"
    /\ UNCHANGED <<dir, dir0, run, todo, cur, im, resized, rgb, created_jpgs, out, steps,
                   skipped, touched>>

\* the size test with < in place of <=
Check2Strict ==
    /\ pc = "check2"
    /\ pc' = IF Max(im.w, im.h) < MAX_DIM THEN "iter2" ELSE "resize2"
    /\ UNCHANGED <<dir, dir0, run, todo, cur, im, resized, rgb, created_jpgs, out, steps,
                   skipped, touched>>

\* line 61-62: an image within the bound is passed over
Check2 ==
    /\ pc = "check2"
    /\ pc' = IF Max(im.w, im.h) <= MAX_DIM THEN "iter2" ELSE "resize2"
    /\ UNCHANGED <<dir, dir0, run, todo, cur, im, resized, rgb, created_jpgs, out, steps,
                   skipped, touched>>

\* line 64: resized = resize(im).convert("RGB")
Resize2 ==
    /\ pc = "resize2"
    /\ \E r \in resize(im) : resized' = convert_RGB(r)
    /\ pc' = "save2"
    /\ steps' = Append(steps, "resize")
    /\ UNCHANGED <<dir, dir0, run, todo, cur, im, rgb, created_jpgs, out, skipped, touched>>

\* line 65: resized.save(jpg_path, **JPEG_OPTS) returns
Save2 ==
    /\ pc = "save2"
    /\ dir' = [dir EXCEPT ![cur] = JpegFile(resized, "inplace")]
    /\ pc' = "print2"
    /\ steps' = Append(steps, "save")
    /\ touched' = touched \cup {cur}
    /\ UNCHANGED <<dir0, run, todo, cur, im, resized, rgb, created_jpgs, out, skipped>>

\* line 65 raises: the exception ends the run
Save2Fails ==
    /\ pc = "save2"
    /\ \E f \in FailedSaveLeaves(dir[cur]) :
         /\ dir' = [dir EXCEPT ![cur] = f]
         /\ touched' = IF f = dir[cur] THEN touched ELSE touched \cup {cur}
    /\ pc' = "failed"
    /\ UNCHANGED <<dir0, run, todo, cur, im, resized, rgb, created_jpgs, out, steps, skipped>>

\* line 67: the progress line of an in-place resize
Print2 ==
    /\ pc = "print2"
    /\ out' = Append(out, [kind |-> "resized", src |-> cur, dst |-> cur,
                           w |-> resized.w, h |-> resized.h])
    /\ pc' = "iter2"
    /\ steps' = Append(steps, "print")
    /\ UNCHANGED <<dir, dir0, run, todo, cur, im, resized, rgb, created_jpgs, skipped, touched>>

\* the statements that can raise without having changed anything: opening or
\* decoding a file, unlinking it, writing to stdout
RaisingSteps == {"open1", "resize1", "flatten1", "unlink", "print1",
                 "open2", "resize2", "print2"}

\* an uncaught exception ends the run
Raise ==
    /\ pc \in RaisingSteps
    /\ pc' = "failed"
    /\ UNCHANGED <<dir, dir0, run, todo, cur, im, resized, rgb, created_jpgs, out, steps,
                   skipped, touched>>

\* pass 2 is exhausted: the script ends
Finish ==
    /\ pc = "iter2"
    /\ todo = {}
    /\ pc' = "done"
    /\ UNCHANGED <<dir, dir0, run, todo, cur, im, resized, rgb, created_jpgs, out, steps,
                   skipped, touched>>

\* the script is started again in the directory a completed run left
Rerun ==
    /\ pc = "done"
    /\ run < MaxRuns
    /\ run' = run + 1
    /\ dir0' = dir
    /\ pc' = "iter1"
    /\ todo' = Present(dir)
    /\ cur' = None
    /\ im' = None
    /\ resized' = None
    /\ rgb' = None
    /\ created_jpgs' = {}
    /\ out' = <<>>
    /\ steps' = <<>>
    /\ skipped' = {}
    /\ touched' = {}
    /\ UNCHANGED dir

Next ==
    \/ Iter1
    \/ Open1
    \/ Resize1
    \/ Flatten1
    \/ Save1
    \/ Save1Fails
    \/ Unlink
    \/ Add
    \/ Print1
    \/ StartPass2
    \/ Iter2
    \/ Open2
    \/ Check2
    \/ Resize2
    \/ Save2
    \/ Save2Fails
    \/ Print2
    \/ Raise
    \/ Finish
    \/ Rerun

Spec == Init /\ [][Next]_vars

-----------------------------------------------------------------------------
(* resize and to_jpeg_rgb on their own: one call on an arbitrary image.     *)

\* widths and heights tried: around 1, around MAX_DIM and around 2 * MAX_DIM
Dims ==
    (1 .. DimSpan)
        \cup ((MAX_DIM - DimSpan) .. (MAX_DIM + DimSpan))
        \cup ((2 * MAX_DIM - DimSpan) .. (2 * MAX_DIM + DimSpan))

\* colour values tried: both ends of the range and its middle
Colours == (0 .. MaxSample) \cup {127, 128} \cup ((255 - MaxSample) .. 255)

Alphas == 0 .. 255

\* the rest of the state while a single function is called
Idle ==
    /\ dir = [n \in Names |-> NoFile]
    /\ dir0 = dir
    /\ run = 1
    /\ todo = {}
    /\ cur = None
    /\ created_jpgs = {}
    /\ out = <<>>
    /\ steps = <<>>
    /\ skipped = {}
    /\ touched = {}

InitResize ==
    /\ Idle
    /\ pc = "call_resize"
    /\ \E W \in Dims, H \in Dims, r \in BOOLEAN :
         im = [id |-> "arg", w |-> W, h |-> H, rot |-> r, mode |-> "RGB",
               key |-> FALSE, c |-> 0, a |-> 255]
    /\ resized = None
    /\ rgb = None

\* resized = resize(im)
CallResize ==
    /\ pc = "call_resize"
    /\ resized' \in resize(im)
    /\ pc' = "resize_returned"
    /\ UNCHANGED <<dir, dir0, run, todo, cur, im, rgb, created_jpgs, out, steps,
                   skipped, touched>>

SpecResize == InitResize /\ [][CallResize]_vars

InitFlatten ==
    /\ Idle
    /\ pc = "call_to_jpeg_rgb"
    /\ im = None
    /\ \E m \in Modes, k \in BOOLEAN, col \in Colours, al \in Alphas, W \in {1, MAX_DIM} :
         resized = [id |-> "arg", w |-> W, h |-> 1, rot |-> FALSE, mode |-> m,
                    key |-> k, c |-> col,
                    a |-> IF HasAlphaBand(m) \/ (m = "P" /\ k) THEN al ELSE 255]
    /\ rgb = None

\* rgb_jpeg_ready = to_jpeg_rgb(resized)
CallFlatten ==
    /\ pc = "call_to_jpeg_rgb"
    /\ rgb' = to_jpeg_rgb(resized)
    /\ pc' = "to_jpeg_rgb_returned"
    /\ UNCHANGED <<dir, dir0, run, todo, cur, im, resized, created_jpgs, out, steps,
                   skipped, touched>>

SpecFlatten == InitFlatten /\ [][CallFlatten]_vars

-----------------------------------------------------------------------------
(* Properties of resize (checked under SpecResize).                         *)

Min(a, b) == IF a <= b THEN a ELSE b

\* num/den rounded to the nearest integer, for den > 0
RoundDiv(num, den) == (2 * num + den) \div (2 * den)

-----------------------------------------------------------------------------
(* Properties of to_jpeg_rgb (checked under SpecFlatten).                   *)

\* transparency as C8 defines it: an alpha channel in the mode, or a palette
\* image with a transparency key
TransparencyPresent(img) ==
    HasAlphaBand(img.mode) \/ (img.mode = "P" /\ img.key)

\* C8 as stated: the flattener returns an opaque 3-channel image of the same
\* size; when the mode has an alpha channel or is a palette mode with a
\* transparency key, each channel is src*alpha + 255*(1-alpha) (rounded), so
\* a fully transparent pixel becomes white and a fully opaque one keeps its
\* colour; otherwise the colour is only coerced to RGB.
C8_CompositesWheneverAlpha ==
    pc = "to_jpeg_rgb_returned" =>
        /\ rgb.mode = "RGB"
        /\ rgb.a = 255
        /\ rgb.w = resized.w /\ rgb.h = resized.h
        /\ IF TransparencyPresent(resized)
           THEN /\ 2 * Abs(255 * rgb.c - (resized.c * resized.a + 255 * (255 - resized.a))) <= 255
                /\ resized.a = 0 => rgb.c = 255
                /\ resized.a = 255 => rgb.c = resized.c
           ELSE rgb.c = resized.c

-----------------------------------------------------------------------------
(* Properties of a run (checked under Spec).                                *)

Pass1Pcs == {"iter1", "open1", "resize1", "flatten1", "save1", "unlink", "add", "print1"}

Pass2Pcs == {"iter2", "open2", "check2", "resize2", "save2", "print2"}

\* the sources the run found when it started
Sources0 == {n \in Names : IsSource(n) /\ dir0[n] # NoFile}

\* a completely written JPEG produced by the conversion pass
IsConverted(f) == f.st = "file" /\ f.by = "conv"

\* the names the progress lines printed so far mention
Logged == {out[i].src : i \in DOMAIN out} \cup {out[i].dst : i \in DOMAIN out}

\* C1 as stated: in every state in which a source has been removed, a
\* completely written <stem>.jpg for it exists; and when the encode/write step
\* fails, the run has stopped with the source still present and unmodified.
C1_RemovedSourceHasCompleteJpg ==
    /\ \A n \in Sources0 :
           dir[n] = NoFile => IsConverted(dir[with_suffix_jpg(n)])
    /\ (pc = "failed" /\ cur # None /\ steps = <<"open", "resize", "flatten">>) =>
           dir[cur] = dir0[cur]

\* C2 as stated: after a run that completes without error, every .webp/.png
\* source of the starting directory is gone and <stem>.jpg exists and holds the
\* converted image of that source.
C2_EverySourceKeptAsJpg ==
    pc = "done" =>
        \A n \in Sources0 :
            /\ dir[n] = NoFile
            /\ IsConverted(dir[with_suffix_jpg(n)])
            /\ dir[with_suffix_jpg(n)].img.id = n

\* the JPEGs the run handles: those the conversion pass produced and those of
\* the starting directory the pattern of pass 2 matches
Handled == created_jpgs \cup {n \in Names : GlobMatch(n) /\ dir0[n] # NoFile}

\* C3: after a run that completes without error, every .jpg the conversion
\* pass produced and every JPEG of the starting directory has largest
\* dimension at most 600; and no file the script has written is ever larger.
C3_LargestDimAtMost600 ==
    /\ pc = "done" =>
           \A n \in Handled :
               IsImageFile(dir[n]) /\ LargestDim(dir[n].img) <= MAX_DIM
    /\ \A n \in Names :
           (IsImageFile(dir[n]) /\ dir[n].by # "orig") =>
               LargestDim(dir[n].img) <= MAX_DIM

\* a run has completed in which a source was converted or an oversized JPEG
\* was resized in place, next to a JPEG that was oversized at the start
C3_Witness ==
    /\ pc = "done"
    /\ \E n \in Names :
           /\ GlobMatch(n)
           /\ IsImageFile(dir0[n])
           /\ LargestDim(dir0[n].img) > MAX_DIM
           /\ dir[n].by = "inplace"
    /\ created_jpgs # {}

\* C4: pass 2 starts only when every source has been converted and removed;
\* its skip-set is exactly the set of names pass 1 produced; a produced file
\* is skipped by membership and is never opened, rewritten or reported by
\* pass 2; and nothing pass 1 did not produce is skipped by membership.
C4_SkipSetIsProducedSet ==
    (pc \in Pass2Pcs \cup {"done"}) =>
        /\ \A n \in Sources0 : dir[n] = NoFile
        /\ created_jpgs = {with_suffix_jpg(n) : n \in Sources0}
        /\ created_jpgs = {out[i].dst : i \in {j \in DOMAIN out : out[j].kind = "converted"}}
        /\ skipped \subseteq created_jpgs
        /\ \A n \in created_jpgs :
               /\ IsConverted(dir[n])
               /\ n \in skipped \cup todo
               /\ \A i \in DOMAIN out : out[i].kind = "resized" => out[i].dst # n
        /\ (pc # "iter2" /\ pc # "done") => cur \notin created_jpgs
        /\ \A n \in skipped : IsConverted(dir[n])

\* a run has completed in which pass 2 skipped a produced file by membership
\* and resized another JPEG in place
C4_Witness ==
    /\ pc = "done"
    /\ skipped # {}
    /\ \E i \in DOMAIN out : out[i].kind = "resized"

\* C5 as stated: when a step fails the run stops; every file converted or
\* resized and logged before the failure is in its new state, and the failing
\* file and every file not yet processed are exactly as they were at the
\* start, also when the failure is a write failure while a JPEG is being
\* overwritten in place.
C5_FailureLeavesOriginals ==
    (pc = "failed" /\ cur # None) =>
        /\ dir[cur] = dir0[cur]
        /\ \A n \in Names \ (Logged \cup {cur, with_suffix_jpg(cur)}) : dir[n] = dir0[n]
        /\ \A i \in DOMAIN out : IsImageFile(dir[out[i].dst]) /\ dir[out[i].dst].by # "orig"

\* the JPEGs of the starting directory that pass 2 finds within the bound:
\* matched by the pattern, not rewritten by pass 1, no larger than 600
WithinBound0 ==
    {n \in Names \ created_jpgs : /\ GlobMatch(n)
                                  /\ IsImageFile(dir0[n])
                                  /\ LargestDim(dir0[n].img) <= MAX_DIM}

\* the statements of pass 2 that follow the size test
Rewriting2 == {"resize2", "save2", "print2"}

IsPrefix(s, t) == Len(s) <= Len(t) /\ \A i \in 1 .. Len(s) : s[i] = t[i]

\* the progress line of the current entry has been printed
CurLogged == \E i \in DOMAIN out : out[i].kind = "converted" /\ out[i].src = cur

\* C9 as stated: the side effects of an entry of pass 1 occur in the order
\* open, resize, flatten, encode, delete the source, print the progress line,
\* add the destination name to the produced-name set.
C9_PrintBeforeAdd ==
    pc \in Pass1Pcs =>
        IsPrefix(steps, <<"open", "resize", "flatten", "save", "unlink", "print", "add">>)

\* C9 amended: the side effects of an entry of pass 1 occur in the order open,
\* resize, flatten, encode, delete the source, add the destination name to the
\* produced-name set, print the progress line; no step happens before an
\* earlier one, and the next entry starts only after the line is printed.
C9_AddBeforePrint ==
    (pc \in Pass1Pcs /\ cur # None) =>
        /\ IsPrefix(steps, <<"open", "resize", "flatten", "save", "unlink", "add", "print">>)
        /\ pc = "iter1" => Len(steps) = 7
        /\ Len(steps) >= 1 => im.id = cur
        /\ Len(steps) >= 2 => resized \in resize(im)
        /\ Len(steps) >= 3 => rgb = to_jpeg_rgb(resized)
        /\ Len(steps) < 4 => ~CurLogged /\ dir[cur] = dir0[cur]
        /\ Len(steps) = 4 =>
               /\ dir[cur] = dir0[cur]
               /\ dir[with_suffix_jpg(cur)] = JpegFile(rgb, "conv")
        /\ Len(steps) >= 5 => dir[cur] = NoFile
        /\ Len(steps) = 5 => ~CurLogged
        /\ Len(steps) >= 6 => with_suffix_jpg(cur) \in created_jpgs
        /\ Len(steps) = 6 => ~CurLogged
        /\ Len(steps) = 7 => CurLogged

\* an entry has been recorded in the produced-name set and its line is not
\* yet printed
C9_Witness ==
    /\ pc = "print1"
    /\ steps = <<"open", "resize", "flatten", "save", "unlink", "add">>
    /\ with_suffix_jpg(cur) \in created_jpgs
    /\ ~CurLogged

\* C10, the part about single steps: an entry disappears only when the
\* conversion pass unlinks the source it is processing, and no step of pass 2
\* changes the set of names.
FrameStep ==
    /\ \A n \in Names :
           (dir[n] # NoFile /\ dir'[n] = NoFile) =>
               /\ pc = "unlink"
               /\ n = cur
               /\ SuffixLower(n) \in {webp, png}
    /\ pc \in Pass2Pcs => Present(dir') = Present(dir)

\* C10, the part about states: an entry that is neither a .webp/.png source
\* nor matched by the JPEG pattern is never opened, written or unlinked and
\* is as it was at the start; and every missing entry of the start is a source.
FrameState ==
    /\ \A n \in Names :
           (SuffixLower(n) \notin {webp, png} /\ ~GlobMatch(n)) =>
               /\ dir[n] = dir0[n]
               /\ n \notin touched
    /\ \A n \in Names :
           (dir0[n] # NoFile /\ dir[n] = NoFile) => SuffixLower(n) \in {webp, png}
    /\ pc = "done" => Present(dir) = (Present(dir0) \ Sources0) \cup created_jpgs

\* C10: the only entries ever deleted are .webp/.png sources selected by the
\* conversion pass; pass 2 never creates or deletes an entry; every entry that
\* is neither a .webp/.png source nor matched by the JPEG pattern is never
\* read, written or deleted and is unchanged at the end of the run.
C10_Frame == []FrameState /\ [][FrameStep]_vars

\* a run has completed that removed a source and left an unrelated entry alone
C10_Witness ==
    /\ pc = "done"
    /\ \E n \in Present(dir0) : dir[n] = NoFile
    /\ \E n \in Present(dir) : SuffixLower(n) \notin {webp, png} /\ ~GlobMatch(n)

====
